---- MODULE Spec2Model ----
(***************************************************************************)
(* NL2MySQL: the request-time pipeline of src/sql_generator.py,            *)
(* src/validator.py and src/adapters/llm_groq.py.                          *)
(*                                                                         *)
(* Text is modelled as a sequence of words.  A word is written in upper    *)
(* case: every comparison the modelled code makes is case-insensitive      *)
(* (it upper-cases or lower-cases both sides, or uses re.IGNORECASE).      *)
(* Words are separated by single spaces.  What a word contains as a        *)
(* substring (Python's in, str.count, str.startswith) is given by the      *)
(* lexicon below.  A message the code builds with an f-string is the pair  *)
(* <<fixed text, interpolated value>>.                                     *)
(***************************************************************************)
EXTENDS Integers, Sequences, FiniteSets, TLC

VARIABLES
    validation_level,   \* SQLValidator.validation_level (shared, mutable)
    scanOrder,          \* iteration order of the set DANGEROUS_KEYWORDS in this process; <<>> until the set is first iterated
    query,              \* argument of the last /validate request
    vresult,            \* Some(result of validate_query) for that request, None before
    pc,                 \* position of the generate_sql call
    max_retries,        \* generate_sql arguments
    include_explanation,
    validate_syntax,
    optimize_query,
    attempt,            \* loop variable of the retry loop (-1: unbound)
    sql_query,          \* local sql_query: None or Some(text)
    result,             \* the result dictionary of generate_sql
    llmCalls,           \* history: calls of llm_adapter.generate_sql made by this generate_sql call
    yields,             \* history: what each attempt yielded, in order
    raised,             \* history: an exception left generate_sql
    steps,              \* history: the validator runs and repair passes of this call, <<step, text>> each
    call                \* the last direct call of a helper: None or Some([op, arg, ret])

vars == <<validation_level, scanOrder, query, vresult, pc, max_retries,
          include_explanation, validate_syntax, optimize_query, attempt,
          sql_query, result, llmCalls, yields, raised, steps, call>>

vvars == <<query, vresult>>
gvars == <<pc, max_retries, include_explanation, validate_syntax, optimize_query,
           attempt, sql_query, result, llmCalls, yields, raised, steps>>

-----------------------------------------------------------------------------
(* Bounds of the model *)

\* longest enumerated validator input, in words
MaxLen == 3

\* largest max_retries a request passes
MaxRetries == 3

-----------------------------------------------------------------------------
(* Python values *)

None == <<>>
Some(x) == <<x>>
IsNone(o) == o = <<>>
Get(o) == o[1]

Msg(text, detail) == <<text, detail>>

RECURSIVE Concat(_)
Concat(ss) == IF ss = <<>> THEN <<>> ELSE Head(ss) \o Concat(Tail(ss))

Last(s) == s[Len(s)]

-----------------------------------------------------------------------------
(* Lexicon: the substrings of a word other than the word itself that the   *)
(* code looks for.                                                         *)

Embeds(w) ==
    CASE w = "CREATED"       -> {"CREATE"}
      [] w = "EXECUTE"       -> {"EXEC"}
      [] w = "SYS.OBJECTS"   -> {"SYS."}
      [] w = "ORDER"         -> {"OR"}
      [] w = "ERROR_MESSAGE" -> {"OR"}
      [] w = "\\'"           -> {"'"}
      [] w = "EXPLANATION:"  -> {"EXPLANATION"}
      [] OTHER               -> {}

\* s occurs in the text of word w
Occurs(w, s) == w = s \/ s \in Embeds(w)

\* (s in text) for a string s without spaces
Contains(q, s) == \E i \in DOMAIN q : Occurs(q[i], s)

\* text.count(s) for a string s without spaces
Count(q, s) == Cardinality({i \in DOMAIN q : Occurs(q[i], s)})

\* (phrase in text) for a phrase of several words
ContainsPhrase(q, ph) ==
    \E i \in 1..(Len(q) - Len(ph) + 1) : \A j \in 1..Len(ph) : q[i + j - 1] = ph[j]

\* number of "'" before position i: odd inside a quoted literal
QuotesBefore(q, i) == Cardinality({j \in 1..(i - 1) : q[j] = "'"})
InLiteral(q, i) == QuotesBefore(q, i) % 2 = 1

-----------------------------------------------------------------------------
(* sqlparse, as far as the validator uses it *)

\* sqlparse.tokens: a token type is a path below Token; (is) compares paths by identity
Keyword == <<"Keyword">>
DML == <<"Keyword", "DML">>
DDL == <<"Keyword", "DDL">>
CTE == <<"Keyword", "CTE">>
Name == <<"Name">>
Punctuation == <<"Punctuation">>
StringSingle == <<"Literal", "String", "Single">>

\* sqlparse.keywords: the type the lexer gives a word
TokenType(w) ==
    CASE w \in {"SELECT", "INSERT", "UPDATE", "DELETE"} -> DML
      [] w \in {"CREATE", "DROP", "ALTER"} -> DDL
      [] w = "WITH" -> CTE
      [] w \in {"FROM", "WHERE", "JOIN", "ON", "AS", "OR", "AND", "UNION", "TABLE",
                "TRUNCATE", "EXEC", "EXECUTE", "ORDER", "GROUP", "BY", "NOT", "IN",
                "LIKE", "LIMIT", "DISTINCT", "INNER"} -> Keyword
      [] w \in {"(", ")", ";", ",", "'"} -> Punctuation
      [] OTHER -> Name

\* Statement.flatten(): the leaf tokens with their types; a quoted literal is one String token
Flatten(stmt) ==
    [i \in DOMAIN stmt |->
        [value |-> stmt[i],
         ttype |-> IF InLiteral(stmt, i) \/ stmt[i] = "'" THEN StringSingle
                   ELSE TokenType(stmt[i])]]

\* sqlparse.parse(query)[0]: the text up to and including the first ";" outside a literal
FirstStatement(q) ==
    LET ends == {i \in DOMAIN q : q[i] = ";" /\ ~InLiteral(q, i)}
    IN  IF ends = {} THEN q
        ELSE SubSeq(q, 1, CHOOSE i \in ends : \A j \in ends : i <= j)

-----------------------------------------------------------------------------
(* src/validator.py *)

BASIC == "basic"
STANDARD == "standard"
STRICT == "strict"
ValidationLevel == {BASIC, STANDARD, STRICT}

DANGEROUS_KEYWORDS ==
    {"DROP", "DELETE", "TRUNCATE", "ALTER", "CREATE", "INSERT", "UPDATE",
     "EXEC", "EXECUTE", "SP_", "XP_", "OPENROWSET", "OPENDATASOURCE",
     "BULK", "BACKUP", "RESTORE", "SHUTDOWN", "RECONFIGURE"}

SYSTEM_OBJECTS ==
    <<"SYS.", "INFORMATION_SCHEMA.", "MASTER.", "MSDB.", "MODEL.",
      "TEMPDB.", "SYSADMIN", "SERVERADMIN", "SECURITYADMIN">>

ALLOWED_STATEMENTS == {"SELECT", "WITH"}

\* _validate_syntax
ValidateSyntax(q) ==
    IF q = <<>> THEN [valid |-> FALSE, errors |-> <<Msg("Empty or invalid SQL query", "")>>]
    ELSE
    LET paren_count == Count(q, "(") - Count(q, ")")
        single_quote_count == Count(q, "'") - Count(q, "\\'")
        e1 == IF paren_count # 0 THEN <<Msg("Unmatched parentheses (difference)", "")>> ELSE <<>>
        e2 == IF single_quote_count % 2 # 0 THEN <<Msg("Unmatched single quotes", "")>> ELSE <<>>
        e3 == IF ~(\E stmt \in {"SELECT", "WITH", "INSERT", "UPDATE", "DELETE"} : Head(q) = stmt)
              THEN <<Msg("Query does not start with a recognized SQL statement", "")>> ELSE <<>>
        errors == e1 \o e2 \o e3
    IN  [valid |-> Len(errors) = 0, errors |-> errors]

\* one iteration of (for keyword in self.DANGEROUS_KEYWORDS)
ScanKeyword(q, keyword, acc) ==
    IF ~Contains(q, keyword) THEN acc
    ELSE IF keyword \in {"DROP", "DELETE", "TRUNCATE", "ALTER"}
         THEN [acc EXCEPT !.issues = Append(@, Msg("Dangerous keyword detected", keyword)),
                          !.risk_level = "high"]
    ELSE IF keyword \in {"INSERT", "UPDATE"}
         THEN [acc EXCEPT !.warnings = Append(@, Msg("Potentially unsafe keyword", keyword)),
                          !.risk_level = "medium"]
    ELSE [acc EXCEPT !.issues = Append(@, Msg("Potentially dangerous keyword", keyword)),
                     !.risk_level = "medium"]

RECURSIVE ScanKeywords(_, _, _)
ScanKeywords(q, order, acc) ==
    IF order = <<>> THEN acc
    ELSE ScanKeywords(q, Tail(order), ScanKeyword(q, Head(order), acc))

RECURSIVE ScanSystemObjects(_, _, _)
ScanSystemObjects(q, objs, acc) ==
    IF objs = <<>> THEN acc
    ELSE ScanSystemObjects(q, Tail(objs),
            IF Contains(q, Head(objs))
            THEN [acc EXCEPT !.issues = Append(@, Msg("Access to system object", Head(objs))),
                             !.risk_level = "high"]
            ELSE acc)

\* re.search(pattern, query, re.IGNORECASE) for the seven injection patterns
Adjacent(q, a, b) == \E i \in 1..(Len(q) - 1) : q[i] = a /\ q[i + 1] = b
InjectionMatches(q, pattern) ==
    CASE pattern = ";\\s*--" -> Adjacent(q, ";", "--")
      [] pattern = "union\\s+select" -> Adjacent(q, "UNION", "SELECT")
      [] pattern = "'\\s*or\\s+'.*'='" ->
            \E i \in 1..(Len(q) - 2) :
                /\ q[i] = "'" /\ q[i + 1] = "OR" /\ q[i + 2] = "'"
                /\ \E j \in (i + 3)..Len(q) : q[j] = "'='"
      [] pattern = "'\\s*or\\s+1\\s*=\\s*1" ->
            \E i \in 1..(Len(q) - 4) :
                q[i] = "'" /\ q[i + 1] = "OR" /\ q[i + 2] = "1" /\ q[i + 3] = "=" /\ q[i + 4] = "1"
      [] pattern = "exec\\s*\\(" -> Adjacent(q, "EXEC", "(")
      [] pattern = "char\\s*\\(" -> Adjacent(q, "CHAR", "(")
      [] pattern = "cast\\s*\\(" -> Adjacent(q, "CAST", "(")

injection_patterns ==
    <<";\\s*--", "union\\s+select", "'\\s*or\\s+'.*'='", "'\\s*or\\s+1\\s*=\\s*1",
      "exec\\s*\\(", "char\\s*\\(", "cast\\s*\\(">>

RECURSIVE ScanInjection(_, _, _)
ScanInjection(q, pats, acc) ==
    IF pats = <<>> THEN acc
    ELSE ScanInjection(q, Tail(pats),
            IF InjectionMatches(q, Head(pats))
            THEN [acc EXCEPT !.issues = Append(@, Msg("Potential SQL injection pattern detected", Head(pats))),
                             !.risk_level = "high"]
            ELSE acc)

\* _validate_security; order is the order in which the set DANGEROUS_KEYWORDS is iterated
ValidateSecurity(q, order) ==
    LET a0 == [issues |-> <<>>, warnings |-> <<>>, risk_level |-> "low"]
        a1 == ScanKeywords(q, order, a0)
        a2 == ScanSystemObjects(q, SYSTEM_OBJECTS, a1)
        a3 == ScanInjection(q, injection_patterns, a2)
        a4 == IF Count(q, "*") > 3
              THEN [a3 EXCEPT !.warnings = Append(@, Msg("Excessive use of wildcards (*) may impact performance", ""))]
              ELSE a3
        a5 == IF (\E keyword \in {"UPDATE", "DELETE"} : Contains(q, keyword)) /\ ~Contains(q, "WHERE")
              THEN [a4 EXCEPT !.issues = Append(@, Msg("UPDATE/DELETE without WHERE clause is dangerous", "")),
                              !.risk_level = "high"]
              ELSE a4
    IN  a5

\* a statement-type pass that lets a statement through when it recognises no
\* statement keyword
ValidateStatementTypesUnknownAllowed(stmt) ==
    [allowed |-> TRUE, type |-> "unknown"]

\* _validate_statement_types: the first token whose type (is tokens.Keyword)
\* and whose value is one of the eight statement words
ValidateStatementTypes(stmt) ==
    LET toks == Flatten(stmt)
        hits == {i \in DOMAIN toks :
                    /\ toks[i].ttype = Keyword
                    /\ toks[i].value \in {"SELECT", "INSERT", "UPDATE", "DELETE",
                                          "CREATE", "DROP", "ALTER", "WITH"}}
    IN  IF hits = {} THEN [allowed |-> FALSE, type |-> "unknown"]
        ELSE LET statement_type == toks[CHOOSE i \in hits : \A j \in hits : i <= j].value
             IN  [allowed |-> statement_type \in ALLOWED_STATEMENTS, type |-> statement_type]

\* _validate_structure
ValidateStructure(stmt) ==
    LET s1 == IF ContainsPhrase(stmt, <<"SELECT", "*">>)
              THEN <<Msg("Consider specifying column names instead of using SELECT *", "")>> ELSE <<>>
        s2 == IF ~ContainsPhrase(stmt, <<"ORDER", "BY">>) /\ ContainsPhrase(stmt, <<"GROUP", "BY">>)
              THEN <<Msg("Consider adding ORDER BY for consistent results with GROUP BY", "")>> ELSE <<>>
        w1 == IF Count(stmt, "JOIN") > 5
              THEN <<Msg("Query has many joins, consider breaking into smaller queries", "")>> ELSE <<>>
        w2 == IF Contains(stmt, "LIKE") /\ Count(stmt, "%") > 3
              THEN <<Msg("Multiple LIKE operations with wildcards may be slow", "")>> ELSE <<>>
        s3 == IF (\E i \in 2..(Len(stmt) - 1) : stmt[i] = "JOIN")
                 /\ ~(\E i \in 2..(Len(stmt) - 1) : stmt[i] = "AS")
              THEN <<Msg("Consider using table aliases for better readability", "")>> ELSE <<>>
    IN  [warnings |-> w1 \o w2, suggestions |-> s1 \o s2 \o s3]

function_patterns == <<"UPPER", "LOWER", "SUBSTRING", "CONVERT", "CAST">>

\* _validate_performance
ValidatePerformance(stmt) ==
    LET w1 == IF ContainsPhrase(stmt, <<"SELECT", "*">>)
              THEN <<Msg("SELECT * can impact performance, specify needed columns", "")>> ELSE <<>>
        \* line 267 looks for "'%'" after deleting every "'%" and "%'": no text of
        \* the lexicon leaves one, so the leading-wildcard warning is never added
        w2 == <<>>
        s1 == IF ContainsPhrase(stmt, <<"ORDER", "BY">>) /\ ~Contains(stmt, "LIMIT") /\ ~Contains(stmt, "TOP")
              THEN <<Msg("Consider adding TOP/LIMIT clause with ORDER BY for better performance", "")>> ELSE <<>>
        s2 == IF Count(stmt, "OR") > 3
              THEN <<Msg("Multiple OR conditions may benefit from UNION or IN clause", "")>> ELSE <<>>
        s3 == IF ContainsPhrase(stmt, <<"NOT", "IN">>)
              THEN <<Msg("NOT IN with NULL values can cause unexpected results, consider NOT EXISTS", "")>> ELSE <<>>
        w3 == Concat([k \in DOMAIN function_patterns |->
                        IF Adjacent(stmt, function_patterns[k], "(") /\ Contains(stmt, "WHERE")
                        THEN <<Msg("Function in WHERE clause may prevent index usage", function_patterns[k])>>
                        ELSE <<>>])
    IN  [warnings |-> w1 \o w2 \o w3, suggestions |-> s1 \o s2 \o s3]

\* _sanitize_query: drop "--" comments to the end of the line and /* */ comments,
\* collapse whitespace, end with a semicolon
RECURSIVE StripComments(_, _)
StripComments(q, inBlock) ==
    IF q = <<>> THEN <<>>
    ELSE IF inBlock THEN StripComments(Tail(q), Head(q) # "*/")
    ELSE IF Head(q) = "--" THEN <<>>
    ELSE IF Head(q) = "/*" /\ Contains(Tail(q), "*/") THEN StripComments(Tail(q), TRUE)
    ELSE <<Head(q)>> \o StripComments(Tail(q), FALSE)

SanitizeQuery(q) ==
    LET sanitized == StripComments(q, FALSE)
    IN  IF sanitized = <<>> \/ Last(sanitized) # ";" THEN Append(sanitized, ";") ELSE sanitized

\* validate_query without the return of lines 67-70: the security pass runs
\* on a query the syntax pass rejected
ValidateQueryNoEarlyReturn(q, level, order) ==
    LET syntax_result == ValidateSyntax(q)
        security_result == ValidateSecurity(q, order)
    IN  [valid |-> syntax_result.valid, errors |-> syntax_result.errors,
         warnings |-> security_result.warnings, security_issues |-> security_result.issues,
         suggestions |-> <<>>, sanitized_query |-> q, risk_level |-> security_result.risk_level]

\* validate_query, lines 39-116
ValidateQuery(q, level, order) ==
    LET result0 == [valid |-> TRUE, errors |-> <<>>, warnings |-> <<>>, security_issues |-> <<>>,
                    suggestions |-> <<>>, sanitized_query |-> q, risk_level |-> "low"]
        syntax_result == ValidateSyntax(q)
    IN  IF ~syntax_result.valid
        THEN [result0 EXCEPT !.valid = FALSE, !.errors = @ \o syntax_result.errors]
        ELSE
        LET parsed0 == FirstStatement(q)
            security_result == ValidateSecurity(q, order)
            r1 == [result0 EXCEPT !.security_issues = @ \o security_result.issues,
                                  !.warnings = @ \o security_result.warnings]
            r2 == IF security_result.risk_level = "high"
                  THEN IF level = STRICT
                       THEN [r1 EXCEPT !.risk_level = "high", !.valid = FALSE,
                                       !.errors = Append(@, Msg("High-risk query blocked by strict validation", ""))]
                       ELSE [r1 EXCEPT !.risk_level = "high"]
                  ELSE IF security_result.risk_level = "medium"
                       THEN [r1 EXCEPT !.risk_level = "medium"]
                       ELSE r1
            statement_result == ValidateStatementTypes(parsed0)
            r3 == IF ~statement_result.allowed
                  THEN [r2 EXCEPT !.valid = FALSE,
                                  !.errors = Append(@, Msg("Statement type not allowed", statement_result.type))]
                  ELSE r2
            structure_result == ValidateStructure(parsed0)
            r4 == [r3 EXCEPT !.warnings = @ \o structure_result.warnings,
                             !.suggestions = @ \o structure_result.suggestions]
            performance_result == ValidatePerformance(parsed0)
            r5 == [r4 EXCEPT !.warnings = @ \o performance_result.warnings,
                             !.suggestions = @ \o performance_result.suggestions]
        IN  [r5 EXCEPT !.sanitized_query = SanitizeQuery(q)]

-----------------------------------------------------------------------------
(* src/adapters/llm_groq.py *)

\* len(word)
WordLen(w) ==
    CASE w \in {"(", ")", ";", ",", "'", "*", "=", "0", "1", "I", "L", "A", "T"} -> 1
      [] w \in {"ON", "AS", "BY", "OR", "IN", "--", "IS"} -> 2
      [] w \in {"30S", "API", "SQL", "FENCE", "THE"} -> 3          \* FENCE: three backticks
      [] w \in {"FROM", "WITH", "DROP", "GROQ", "THIS", "HELP", "A.ID", "HERE"} -> 4
      [] w \in {"WHERE", "TABLE", "COUNT", "AFTER", "QUERY", "LISTS", "INNER"} -> 5
      [] w \in {"SELECT", "DELETE", "UPDATE", "CANNOT", "FENCE_SQL", "ERROR:", "STATUS"} -> 6   \* FENCE_SQL: three backticks and sql
      [] w \in {"CREATED", "TIMEOUT", "INVALID"} -> 7
      [] w \in {"SPT_LINK", "RESPONSE"} -> 8
      [] w \in {"GENERATED", "EMPLOYEES"} -> 9
      [] w \in {"I.LASTNAME", "I.INACTIVE"} -> 10
      [] w \in {"I.FIRSTNAME", "EXPLANATION"} -> 11
      [] w \in {"SPT_IDENTITY"} -> 12
      [] w \in {"ERROR_MESSAGE", "L.APPLICATION"} -> 13
      [] w \in {"SPT_APPLICATION"} -> 15
      [] OTHER -> 1

\* a space separates word i from word i-1, except around punctuation that is written attached
SpaceBefore(q, i) ==
    /\ i > 1
    /\ q[i] \notin {",", ";", ")", "("}
    /\ q[i - 1] # "("
    /\ ~(q[i] = "'" /\ InLiteral(q, i))
    /\ ~(q[i - 1] = "'" /\ InLiteral(q, i))

RECURSIVE TextLenFrom(_, _)
TextLenFrom(q, i) ==
    IF i > Len(q) THEN 0
    ELSE WordLen(q[i]) + (IF SpaceBefore(q, i) THEN 1 ELSE 0) + TextLenFrom(q, i + 1)

\* len(text)
TextLen(q) == TextLenFrom(q, 1)

\* the fixed placeholder the extractor returns when it finds no SQL (line 410)
InvalidSqlSentinel ==
    <<"SELECT", "'", "INVALID", "SQL", "GENERATED", "BY", "GROQ", "'", "AS", "ERROR_MESSAGE", ";">>

\* the placeholder SELECTs generate_sql returns for a failed request (lines 161-215)
ErrorSelect(message) == <<"SELECT", "'">> \o message \o <<"'", "AS", "ERROR_MESSAGE", ";">>
TimeoutSelect == ErrorSelect(<<"GROQ", "API", "TIMEOUT", "AFTER", "30S">>)
ExceptionSelect == ErrorSelect(<<"ERROR:", "E">>)
StatusSelect == ErrorSelect(<<"GROQ", "API", "ERROR:", "STATUS">>)
NoChoicesSelect == ErrorSelect(<<"NO", "RESPONSE", "CHOICES", "FROM", "GROQ", "API">>)
BadChoiceSelect == ErrorSelect(<<"INVALID", "RESPONSE", "STRUCTURE", "FROM", "GROQ", "API">>)
EmptyContentSelect == ErrorSelect(<<"EMPTY", "RESPONSE", "FROM", "GROQ", "API">>)

\* the "explanatory text" phrases of lines 377-380
ExplanatoryPhrases ==
    {<<"THIS", "QUERY">>, <<"EXPLANATION">>, <<"NOTE:">>, <<"THE", "ABOVE", "QUERY">>,
     <<"HERE", "IS">>, <<"THIS", "WILL">>, <<"THE", "RESULT">>, <<"THIS", "SQL">>}

HasExplanatoryPhrase(line) ==
    \E phrase \in ExplanatoryPhrases :
        IF Len(phrase) = 1 THEN Contains(line, phrase[1]) ELSE ContainsPhrase(line, phrase)

\* .replace(FENCE_SQL, '').replace(FENCE, ''): the markdown fences are deleted
StripFences(line) == SelectSeq(line, LAMBDA w : w \notin {"FENCE_SQL", "FENCE"})

\* the line loop of lines 367-387: the lines collected as SQL
RECURSIVE CollectSqlLines(_, _)
CollectSqlLines(lines, found_select) ==
    IF lines = <<>> THEN <<>>
    ELSE LET line == Head(lines)
         IN  IF line = <<>> THEN CollectSqlLines(Tail(lines), found_select)
             ELSE IF Head(line) = "SELECT" \/ found_select
                  THEN IF HasExplanatoryPhrase(line) THEN <<>>
                       ELSE <<line>> \o CollectSqlLines(Tail(lines), TRUE)
             ELSE IF \E word \in {"SELECT", "WITH", "FROM"} : Contains(line, word)
                  THEN <<line>> \o CollectSqlLines(Tail(lines), TRUE)
             ELSE CollectSqlLines(Tail(lines), found_select)

\* response.split(newline): the lines of a text whose line breaks are the word "\n"
RECURSIVE SplitLines(_, _)
SplitLines(text, line) ==
    IF text = <<>> THEN <<line>>
    ELSE IF Head(text) = "\n" THEN <<line>> \o SplitLines(Tail(text), <<>>)
    ELSE SplitLines(Tail(text), Append(line, Head(text)))

\* an extractor without the final (looks like SELECT) test of lines 406-410
ExtractUnchecked(response) ==
    LET joined == Concat(CollectSqlLines([i \in DOMAIN response |-> StripFences(response[i])], FALSE))
    IN  IF joined # <<>> /\ Last(joined) # ";" THEN Append(joined, ";") ELSE joined

\* _extract_sql_from_groq_response; response is a sequence of lines
ExtractSqlFromGroqResponse(response) ==
    LET lines == [i \in DOMAIN response |-> StripFences(response[i])]
        joined == Concat(CollectSqlLines(lines, FALSE))
        prefixed == IF joined # <<>> /\ Head(joined) # "SELECT"
                       /\ (\E word \in {"FROM", "WHERE", "JOIN"} : Contains(joined, word))
                    THEN <<"SELECT">> \o joined ELSE joined
        terminated == IF prefixed # <<>> /\ Last(prefixed) # ";" THEN Append(prefixed, ";") ELSE prefixed
    IN  IF terminated = <<>> \/ TextLen(terminated) < 15 \/ Head(terminated) # "SELECT"
        THEN InvalidSqlSentinel
        ELSE terminated

\* what requests.post can do (lines 143-215)
HttpTypes == {"timeout", "exception", "status", "no_choices", "bad_choice", "empty_content", "content"}

\* GroqAdapter.generate_sql, given what the HTTP request did; the adapter of a
\* constructed SQLGenerator always has an api_key (sql_generator.py lines 57-59)
GroqGenerateSql(http) ==
    CASE http.type = "timeout" -> TimeoutSelect
      [] http.type = "exception" -> ExceptionSelect
      [] http.type = "status" -> StatusSelect
      [] http.type = "no_choices" -> NoChoicesSelect
      [] http.type = "bad_choice" -> BadChoiceSelect
      [] http.type = "empty_content" -> EmptyContentSelect
      [] http.type = "content" -> ExtractSqlFromGroqResponse(http.text)

-----------------------------------------------------------------------------
(* src/optimizer.py.  format_query changes the case of words, so the texts  *)
(* handed to the optimizer keep the case of their words.                   *)

\* str.upper() and str.lower() of a word
Upper(w) ==
    CASE w = "inner"  -> "INNER"
      [] w = "winner" -> "WINNER"
      [] w = "t"      -> "T"
      [] OTHER        -> w

Lower(w) ==
    CASE w = "INNER"  -> "inner"
      [] w = "WINNER" -> "winner"
      [] w = "T"      -> "t"
      [] OTHER        -> w

\* the words sqlparse lexes as keywords, among the words of the optimizer texts
OptimizerKeywords == {"SELECT", "FROM", "WHERE", "INNER", "JOIN", "ON", "EXISTS"}

\* format_query: sqlparse.format(keyword_case='upper', identifier_case='lower',
\* reindent=True, ...); the re-indentation changes only the white space
\* between words
FormatQuery(q) ==
    [i \in DOMAIN q |-> IF Upper(q[i]) \in OptimizerKeywords THEN Upper(q[i]) ELSE Lower(q[i])]

\* ('INNER JOIN' in query_upper), a substring test: it also holds where a
\* longer word that ends with INNER stands before JOIN
HasInnerJoinText(q) ==
    \E i \in 1..(Len(q) - 1) : Upper(q[i]) \in {"INNER", "WINNER"} /\ Upper(q[i + 1]) = "JOIN"

\* re.sub(r'\bINNER\s+JOIN\b', 'JOIN', query, flags=re.IGNORECASE): whole words
\* only, leftmost matches first, without overlap
RECURSIVE SubInnerJoin(_)
SubInnerJoin(q) ==
    IF Len(q) < 2 THEN q
    ELSE IF Upper(q[1]) = "INNER" /\ Upper(q[2]) = "JOIN"
         THEN <<"JOIN">> \o SubInnerJoin(Tail(Tail(q)))
         ELSE <<q[1]>> \o SubInnerJoin(Tail(q))

\* the improvements list of _optimize_joins, lines 134-143.  The tests are
\* substring tests on the upper-cased text; none of the words of the optimizer
\* texts holds JOIN, ON or WHERE inside a longer word
JoinImprovements(q) ==
    (IF HasInnerJoinText(q) THEN <<"Simplified INNER JOIN to JOIN">> ELSE <<>>)
    \o (IF Cardinality({i \in DOMAIN q : Upper(q[i]) = "JOIN"}) > 2
        THEN <<"Consider ordering joins with smaller tables first">> ELSE <<>>)
    \o (IF /\ \E i \in DOMAIN q : Upper(q[i]) = "JOIN"
           /\ ~\E i \in DOMAIN q : Upper(q[i]) \in {"ON", "WHERE"}
        THEN <<"Warning: Potential Cartesian product detected - ensure proper join conditions">>
        ELSE <<>>)

\* _optimize_joins
OptimizeJoins(q) ==
    IF HasInnerJoinText(q)
    THEN [modified |-> TRUE, query |-> SubInnerJoin(q), optimization |-> "JOIN optimization",
          improvements |-> JoinImprovements(q)]
    ELSE [modified |-> FALSE, query |-> q, optimization |-> "JOIN optimization",
          improvements |-> JoinImprovements(q)]

\* ('SELECT *' in query.upper())
HasSelectStar(q) == \E i \in 1..(Len(q) - 1) : Upper(q[i]) = "SELECT" /\ q[i + 1] = "*"

\* _optimize_select_star, lines 95-122: never modifies
OptimizeSelectStar(q) ==
    IF ~HasSelectStar(q)
    THEN [modified |-> FALSE, query |-> q, optimization |-> "", improvements |-> <<>>]
    ELSE [modified |-> FALSE, query |-> q, optimization |-> "SELECT * analysis",
          improvements |-> <<"Consider specifying column names instead of SELECT * for better performance">>]

\* lines 73-77 for one optimization function: its name and its improvements
\* are recorded only when it modified the query
Recorded(opt_result, field) ==
    IF ~opt_result.modified THEN <<>>
    ELSE IF field = "optimization" THEN <<opt_result.optimization>>
    ELSE opt_result.improvements

\* re.search(r'EXISTS\s*\(\s*SELECT\s+\*', query, re.IGNORECASE) at position i
ExistsStarAt(q, i) ==
    /\ i + 3 <= Len(q)
    /\ Upper(q[i]) = "EXISTS" /\ q[i + 1] = "(" /\ Upper(q[i + 2]) = "SELECT" /\ q[i + 3] = "*"

\* re.sub(r'(EXISTS\s*\(\s*)SELECT\s+\*', r'\1SELECT 1', query, flags=re.IGNORECASE)
SubExistsStar(q) ==
    [i \in DOMAIN q |->
        IF i > 3 /\ ExistsStarAt(q, i - 3) THEN "1"
        ELSE IF i > 2 /\ ExistsStarAt(q, i - 2) THEN "SELECT"
        ELSE q[i]]

\* _optimize_exists_clauses
OptimizeExistsClauses(q) ==
    IF (\E i \in DOMAIN q : Upper(q[i]) = "EXISTS") /\ (\E i \in DOMAIN q : ExistsStarAt(q, i))
    THEN [modified |-> TRUE, query |-> SubExistsStar(q), optimization |-> "EXISTS clause optimization",
          improvements |-> <<"EXISTS clauses are generally well-optimized",
                             "Replaced SELECT * with SELECT 1 in EXISTS clause">>]
    ELSE [modified |-> FALSE, query |-> q, optimization |-> "EXISTS clause optimization",
          improvements |-> IF \E i \in DOMAIN q : Upper(q[i]) = "EXISTS"
                           THEN <<"EXISTS clauses are generally well-optimized">> ELSE <<>>]

\* optimize_query, lines 26-93.  Of the ten optimization functions only
\* _optimize_joins and _optimize_exists_clauses ever return modified = True;
\* the others return the query as they got it, and what they report is
\* dropped with them.
OptimizeQuery(q) ==
    IF q = <<>>
    THEN [optimized_query |-> q, optimizations_applied |-> <<>>, performance_improvements |-> <<>>,
          warnings |-> <<Msg("Failed to parse query for optimization", "")>>]
    ELSE LET star == OptimizeSelectStar(q)
             joins == OptimizeJoins(star.query)
             exists == OptimizeExistsClauses(joins.query)
         IN  [optimized_query |-> FormatQuery(exists.query),
              optimizations_applied |->
                  Recorded(star, "optimization") \o Recorded(joins, "optimization")
                  \o Recorded(exists, "optimization"),
              performance_improvements |->
                  Recorded(star, "improvements") \o Recorded(joins, "improvements")
                  \o Recorded(exists, "improvements"),
              warnings |-> <<>>]

-----------------------------------------------------------------------------
(* src/two_step_vector_db_search.py: the prompt.  A prompt is the sequence *)
(* of its sections, <<section, what is interpolated into it>> each.        *)

\* the document table_to_definitions_collection holds under the id name
DefinitionOf(name) == <<"DDL", name>>

\* a lookup that answers a missing name with an empty definition
LookupDefinitionDefaulted(table_name, store, raising) ==
    IF table_name \in raising THEN None
    ELSE IF table_name \in store THEN Some(DefinitionOf(table_name))
    ELSE Some(<<>>)

\* lines 99-116, one name: collection.get(ids=[table_name]); store: the ids
\* the collection holds, raising: the ids whose lookup raises.  None: the name
\* gets no entry
LookupDefinition(table_name, store, raising) ==
    IF table_name \in raising THEN None
    ELSE IF table_name \in store THEN Some(DefinitionOf(table_name))
    ELSE None

\* table_definitions[table_name] = definition on a dict kept as a sequence of
\* <<key, value>> in insertion order
DictSet(d, key, value) ==
    IF \E i \in DOMAIN d : d[i][1] = key
    THEN [i \in DOMAIN d |-> IF d[i][1] = key THEN <<key, value>> ELSE d[i]]
    ELSE Append(d, <<key, value>>)

\* step2_tables_to_definitions, lines 92-119
RECURSIVE Step2TablesToDefinitions(_, _, _, _)
Step2TablesToDefinitions(table_names, store, raising, table_definitions) ==
    IF table_names = <<>> THEN table_definitions
    ELSE Step2TablesToDefinitions(
             Tail(table_names), store, raising,
             IF IsNone(LookupDefinition(Head(table_names), store, raising))
             THEN table_definitions
             ELSE DictSet(table_definitions, Head(table_names),
                          Get(LookupDefinition(Head(table_names), store, raising))))

\* the (for table_name, definition in ...items()) loop of lines 170-172: one
\* CREATE TABLE block per table
RECURSIVE TableDefinitionsText(_)
TableDefinitionsText(tables) ==
    IF tables = <<>> THEN <<>>
    ELSE <<Msg("CREATE TABLE", Head(tables))>> \o TableDefinitionsText(Tail(tables))

\* the entries training_embedder.embed_training_data stores in the example
\* collection, by natural_language, sql and explanation
ExampleEntries ==
    {[natural_language |-> "give me all the identities who does have account in Workday application",
      sql_query |-> "SELECT DISTINCT i.firstname, ... WHERE a.name = 'Workday' AND i.inactive = 0;",
      explanation |-> "Finds all active users who have accounts in the Workday application"],
     [natural_language |-> "show all inactive identities",
      sql_query |-> "SELECT i.firstname, i.lastname FROM spt_identity i WHERE i.inactive = 1;",
      explanation |-> "Lists the identities that are marked inactive"]}

\* iiq_training_examples.get_training_example(): the one built-in example
GetTrainingExample ==
    [natural_language |-> "give me all the identities who does have account in Workday application",
     sql_query |-> "SELECT DISTINCT i.firstname, ... WHERE a.name = 'Workday' AND i.inactive = 0;",
     explanation |-> "Finds all active users who have accounts in the Workday application"]

\* the distances a collection created with the defaults returns: the squared
\* L2 distance of two unit vectors, 0.0 to 4.0, here in tenths
Distances == {0, 3, 10, 14, 40}

\* similarity_score = 1 - distance (lines 76 and 215), in tenths
SimilarityScore(distance) == 10 - distance

\* _get_training_examples_from_vector_db, lines 202-237; results: None when
\* the collection returns no document or the query raises, else the matched
\* entry and its distance
TrainingExamplesText(results) ==
    IF IsNone(results) THEN <<>>
    ELSE <<Msg("## RELEVANT TRAINING EXAMPLE:",
               [similarity |-> SimilarityScore(Get(results).distance),
                natural_language |-> GetTrainingExample.natural_language,
                sql_query |-> GetTrainingExample.sql_query,
                explanation |-> GetTrainingExample.explanation])>>

\* generate_prompt_with_definitions, lines 162-200; search: the result of
\* search_query_to_definitions
GeneratePromptWithDefinitions(search, user_query, found) ==
    IF ~search.success THEN <<Msg("Error:", search.error)>>
    ELSE <<Msg("You are a MySQL expert, you need to write query for me in mysql.", "")>>
         \o TableDefinitionsText(search.table_definitions)
         \o TrainingExamplesText(found)
         \o <<Msg("Based on these table definitions and training examples, generate the appropriate SQL query for the user's request.", ""),
              Msg("Key points to remember:", ""),
              Msg("User Request:", user_query),
              Msg("Generate ONLY the SQL query (no explanations or additional text):", "")>>

\* _generate_sql_with_llm, lines 246-262: the prompt handed to the adapter
LlmPrompt(search, user_query, found, a) ==
    GeneratePromptWithDefinitions(search, user_query, found)
    \o (IF a > 0 THEN <<Msg("RETRY ATTEMPT", a)>> ELSE <<>>)

-----------------------------------------------------------------------------
(* src/sql_generator.py *)

\* (word in error.lower()) for the three words _attempt_sql_fix looks for
ErrorMentions(error, word) ==
    \/ word = "semicolon" /\ error[1] = "Missing semicolon"
    \/ word = "quote" /\ error[1] = "Unmatched single quotes"
    \/ word = "parenthes" /\ error[1] = "Unmatched parentheses (difference)"

RECURSIVE Repeat(_, _)
Repeat(w, n) == IF n <= 0 THEN <<>> ELSE <<w>> \o Repeat(w, n - 1)

\* the body of (for error in errors) in _attempt_sql_fix
FixError(fixed_sql, error) ==
    LET f1 == IF ErrorMentions(error, "semicolon") /\ (fixed_sql = <<>> \/ Last(fixed_sql) # ";")
              THEN Append(fixed_sql, ";") ELSE fixed_sql
        f2 == IF ErrorMentions(error, "quote") /\ Count(f1, "'") % 2 # 0
              THEN Append(f1, "'") ELSE f1
        open_count == Count(f2, "(")
        close_count == Count(f2, ")")
        f3 == IF ErrorMentions(error, "parenthes")
              THEN IF open_count > close_count THEN f2 \o Repeat(")", open_count - close_count)
                   ELSE IF close_count > open_count THEN Repeat("(", close_count - open_count) \o f2
                   ELSE f2
              ELSE f2
    IN  f3

\* _attempt_sql_fix
RECURSIVE AttemptSqlFix(_, _)
AttemptSqlFix(sql, errors) ==
    IF errors = <<>> THEN sql
    ELSE AttemptSqlFix(FixError(sql, Head(errors)), Tail(errors))

\* an explanation call whose arguments are bound: it reaches the adapter once
ExplanationCallBound(sql) == [raises |-> FALSE, llm_calls |-> 1, text |-> <<"EXPLANATION">>]

\* line 211: the explanation call.  schema_context is bound nowhere in
\* generate_sql or the module, so evaluating the arguments raises NameError
\* before _generate_explanation is entered: no adapter call is made.
ExplanationCall(sql) == [raises |-> TRUE, llm_calls |-> 0, text |-> <<>>]

\* lines 104-119
NewResult ==
    [success |-> FALSE, sql_query |-> <<>>, explanation |-> <<>>,
     validation_result |-> None, optimization_result |-> None,
     attempts |-> 0, errors |-> <<>>, warnings |-> <<>>]

\* (sql_query and sql_query.strip()): neither None nor blank
Truthy(o) == ~IsNone(o) /\ Get(o) # <<>>

\* what one call of _generate_sql_with_llm does: a collaborator raises
\* (the prompt builder before the adapter is called, or the adapter), or the
\* adapter returns a text.  "empty" is an adapter that returns ""; the Groq
\* adapter returns GroqGenerateSql of what its HTTP request did.
RawCompletions ==
    {<< <<"SELECT", "I.FIRSTNAME", ",", "I.LASTNAME", "FROM", "SPT_IDENTITY", "I",
          "WHERE", "I.INACTIVE", "=", "0">> >>,
     << <<"DROP", "TABLE", "SPT_IDENTITY", ";">> >>,
     << <<"SELECT", "*", "FROM", "SPT_LINK", "L", "JOIN", "SPT_APPLICATION", "A",
          "ON", "L.APPLICATION", "=", "A.ID">> >>,
     << <<"SELECT", "COUNT", "(", "*", "FROM", "SPT_IDENTITY">> >>,
     << <<"DELETE", "FROM", "SPT_IDENTITY">> >>,
     << <<"I", "CANNOT", "HELP">> >>,
     << <<"SELECT", "1">> >>,
     << <<"SELECT", "I.FIRSTNAME", "FROM", "SPT_IDENTITY", "I",
          "WHERE", "I.LASTNAME", "=", "'", "SMITH">> >>,
     << <<"SELECT", "I.FIRSTNAME", "FROM", "SPT_IDENTITY", "I",
          "WHERE", "I.LASTNAME", "=", "'", "O", "\\'", "BRIEN">> >>,
     << <<"SELECT", "L.APPLICATION", "FROM", "SPT_LINK", "L", "INNER", "JOIN", "SPT_APPLICATION", "A",
          "ON", "L.APPLICATION", "=", "A.ID">> >>,
     << <<"FENCE_SQL">>, <<"SELECT", "I.LASTNAME", "FROM", "SPT_IDENTITY", "I">>, <<"FENCE">>,
        <<"THIS", "QUERY", "LISTS", "EMPLOYEES">> >>}

HttpOutcomes ==
    {[type |-> t, text |-> <<>>] : t \in HttpTypes \ {"content"}}
    \cup {[type |-> "content", text |-> r] : r \in RawCompletions}

YieldKind(http) ==
    CASE http.type = "timeout" -> "timeout"
      [] http.type = "content" ->
            IF GroqGenerateSql(http) = InvalidSqlSentinel THEN "sentinel" ELSE "sql"
      [] OTHER -> "error"

AttemptOutcomes ==
    {[kind |-> "raise", called |-> c, text |-> <<>>] : c \in BOOLEAN}
    \cup {[kind |-> "empty", called |-> TRUE, text |-> <<>>]}
    \cup {[kind |-> YieldKind(h), called |-> TRUE, text |-> GroqGenerateSql(h)] : h \in HttpOutcomes}

\* iteration orders of DANGEROUS_KEYWORDS.  Only the keywords some text of the
\* model contains can hit; the others are scanned first, in a fixed order.
KeywordsInTexts == {"DROP", "DELETE", "CREATE"}

KeywordsNotInTexts ==
    <<"TRUNCATE", "ALTER", "INSERT", "UPDATE", "EXEC", "EXECUTE", "SP_", "XP_", "OPENROWSET",
      "OPENDATASOURCE", "BULK", "BACKUP", "RESTORE", "SHUTDOWN", "RECONFIGURE">>

ScanOrders ==
    LET n == Cardinality(KeywordsInTexts)
        perms == {o \in [1..n -> KeywordsInTexts] : \A i, j \in 1..n : i # j => o[i] # o[j]}
    IN  {KeywordsNotInTexts \o o : o \in perms}

\* range(max_retries)
RetryRange(mr) == 0..(mr - 1)

\* a handler that records the error of every failed attempt
OnAttemptExceptionRecordsAll(r, a, mr) ==
    [result |-> [r EXCEPT !.errors = Append(@, Msg("All generation attempts failed. Last error", "e"))],
     returns |-> a = mr - 1]

\* lines 151-156: the handler of an exception raised inside attempt a
OnAttemptException(r, a, mr) ==
    IF a = mr - 1
    THEN [result |-> [r EXCEPT !.errors = Append(@, Msg("All generation attempts failed. Last error", "e"))],
          returns |-> TRUE]
    ELSE [result |-> r, returns |-> FALSE]

\* lines 228-232: the handler around the whole body; exc: an exception reached it
OuterHandler(r, exc) ==
    IF exc THEN [result |-> [r EXCEPT !.errors = Append(@, Msg("Generation error", "e"))], raised |-> FALSE]
    ELSE [result |-> r, raised |-> FALSE]

\* self.validator.validate_query as generate_sql sees it.  The SQLValidator of
\* validator.py returns (its own handler, lines 111-114); a substituted
\* validator may raise.
ValidatorBehaviours == {"returns", "raises"}

\* lines 169, 186-189: the verdict and the text it is about are stored;
\* lines 191-192: its warnings and security issues join the result's warnings
RecordValidation(r, sql, v) ==
    [r EXCEPT !.sql_query = sql,
              !.validation_result = Some(v),
              !.warnings = @ \o v.warnings \o v.security_issues]

\* a repair step that stores the repaired text without judging it again
RepairStepNoRevalidation(r, sql0, a, mr, level, order, v1, fixed_sql) ==
    IF ~v1.valid /\ a < mr - 1 /\ fixed_sql # <<>> /\ fixed_sql # sql0
    THEN [result |-> RecordValidation(r, fixed_sql, v1),
          sql |-> fixed_sql,
          scanned |-> ValidateSyntax(sql0).valid,
          steps |-> <<Msg("validate", sql0), Msg("repair", sql0)>>]
    ELSE [result |-> RecordValidation(r, sql0, v1),
          sql |-> sql0,
          scanned |-> ValidateSyntax(sql0).valid,
          steps |-> <<Msg("validate", sql0)>>]

\* lines 178-189: a failed verdict with attempts to spare gets one repair and,
\* when the repair changed the text, one re-validation.  scanned: a security
\* pass ran; steps: the validator runs and repair passes made
RepairStep(r, sql0, a, mr, level, order, v1, fixed_sql) ==
    IF ~v1.valid /\ a < mr - 1 /\ fixed_sql # <<>> /\ fixed_sql # sql0
    THEN [result |-> RecordValidation(r, fixed_sql, ValidateQuery(fixed_sql, level, order)),
          sql |-> fixed_sql,
          scanned |-> ValidateSyntax(sql0).valid \/ ValidateSyntax(fixed_sql).valid,
          steps |-> <<Msg("validate", sql0), Msg("repair", sql0), Msg("validate", fixed_sql)>>]
    ELSE [result |-> RecordValidation(r, sql0, v1),
          sql |-> sql0,
          scanned |-> ValidateSyntax(sql0).valid,
          steps |-> IF ~v1.valid /\ a < mr - 1
                    THEN <<Msg("validate", sql0), Msg("repair", sql0)>>
                    ELSE <<Msg("validate", sql0)>>]

\* Step 3, lines 166-192, v1 the verdict on the generated text
ValidateStep(r, sql0, a, mr, level, order, v1) ==
    RepairStep(r, sql0, a, mr, level, order, v1, AttemptSqlFix(sql0, v1.errors))

\* Step 4, lines 197-203: no optimizer is called
OptimizeStep(r, sql, oq) ==
    IF oq
    THEN [r EXCEPT !.optimization_result =
              Some([optimized_query |-> sql, optimizations_applied |-> <<>>, warnings |-> <<>>])]
    ELSE r

\* a step 5 that reports a failed explanation as an error of the call
ExplainStepFailureRecorded(r, ie, ex) ==
    IF ~ie THEN r
    ELSE IF ex.raises
         THEN [r EXCEPT !.warnings = Append(@, Msg("Could not generate explanation", "")),
                        !.errors = Append(@, Msg("Could not generate explanation", ""))]
         ELSE [r EXCEPT !.explanation = ex.text]

\* Step 5, lines 206-217, ex what the explanation call did
ExplainStep(r, ie, ex) ==
    IF ~ie THEN r
    ELSE IF ex.raises
         THEN [r EXCEPT !.warnings = Append(@, Msg("Could not generate explanation", ""))]
         ELSE [r EXCEPT !.explanation = ex.text]

\* a completion of the call that treats an invalid verdict as a failure
CompleteFatalOnInvalid(r, ie, s, ex) ==
    [result |-> [ExplainStep(r, ie, ex) EXCEPT
                    !.success = IsNone(r.validation_result) \/ Get(r.validation_result).valid],
     llm_calls |-> IF ie THEN ex.llm_calls ELSE 0,
     exc |-> FALSE,
     scanned |-> s.scanned,
     sql |-> Some(s.sql),
     steps |-> s.steps]

\* lines 206-220, s the text, the scan flag and the steps after step 3
Complete(r, ie, s, ex) ==
    [result |-> [ExplainStep(r, ie, ex) EXCEPT !.success = TRUE],
     llm_calls |-> IF ie THEN ex.llm_calls ELSE 0,
     exc |-> FALSE,
     scanned |-> s.scanned,
     sql |-> Some(s.sql),
     steps |-> s.steps]

\* lines 197-220, s the result, the text, the scan flag and the steps after step 3
AfterValidation(s, oq, ie) ==
    Complete(OptimizeStep(s.result, s.sql, oq), ie, s, ExplanationCall(s.sql))

\* lines 158-220, after the retry loop, for a call that did not return inside it
AfterLoop(r, sq, a, mr, ie, vs, oq, level, order, vb) ==
    IF ~Truthy(sq)
    THEN [result |-> [r EXCEPT !.errors = Append(@, Msg("Failed to generate SQL after all attempts", ""))],
          llm_calls |-> 0, exc |-> FALSE, scanned |-> FALSE, sql |-> sq, steps |-> <<>>]
    ELSE IF vs /\ vb = "raises"
    THEN [result |-> [r EXCEPT !.sql_query = Get(sq)], llm_calls |-> 0, exc |-> TRUE, scanned |-> FALSE,
          sql |-> sq, steps |-> <<Msg("validate", Get(sq))>>]
    ELSE IF vs
    THEN AfterValidation(ValidateStep([r EXCEPT !.sql_query = Get(sq)], Get(sq), a, mr, level, order,
                                      ValidateQuery(Get(sq), level, order)), oq, ie)
    ELSE AfterValidation([result |-> [r EXCEPT !.sql_query = Get(sq)], sql |-> Get(sq), scanned |-> FALSE,
                          steps |-> <<>>],
                         oq, ie)

-----------------------------------------------------------------------------
(* State machine *)

Words == {"SELECT", "WITH", "DELETE", "DROP", "CREATED", "WHERE", "T"}

TextsUpTo(W, n) == UNION {[1..k -> W] : k \in 0..n}

ScenarioQueries ==
    {<<"SELECT", "I.FIRSTNAME", ",", "I.LASTNAME", "FROM", "SPT_IDENTITY", "I",
       "WHERE", "I.INACTIVE", "=", "0">>,
     <<"DROP", "TABLE", "SPT_IDENTITY", ";">>,
     <<"SELECT", "*", "FROM", "SPT_LINK", "L", "JOIN", "SPT_APPLICATION", "A",
       "ON", "L.APPLICATION", "=", "A.ID">>,
     <<"SELECT", "COUNT", "(", "*", "FROM", "SPT_IDENTITY">>,
     <<"SELECT", "T", "FROM", "SYS.OBJECTS">>,
     <<"SELECT", "T", "FROM", "T", "WHERE", "T", "=", "'", "DROP">>,
     <<"SELECT", "T", "FROM", "T", "UNION", "SELECT", "DROP", "FROM", "T">>,
     <<"WITH", "T", "AS", "(", "SELECT", "1", ")", "SELECT", "*", "FROM", "T">>}

Queries == TextsUpTo(Words, MaxLen) \cup ScenarioQueries

Init ==
    /\ validation_level \in ValidationLevel
    /\ scanOrder = <<>>
    /\ query = <<>>
    /\ vresult = None
    /\ pc = "idle"
    /\ max_retries = 0
    /\ include_explanation = FALSE
    /\ validate_syntax = FALSE
    /\ optimize_query = FALSE
    /\ attempt = -1
    /\ sql_query = None
    /\ result = NewResult
    /\ llmCalls = 0
    /\ yields = <<>>
    /\ raised = FALSE
    /\ steps = <<>>
    /\ call = None

\* the hash seed of the process fixes the iteration order the first time it shows
OrderFor(order) == order \in ScanOrders /\ (scanOrder = <<>> \/ scanOrder = order)

\* validator.validate_query(sql), one call
ValidateQueryCall(sql) ==
    /\ IsNone(vresult)
    /\ IsNone(call)
    /\ pc = "idle"
    /\ \E order \in ScanOrders :
        /\ OrderFor(order)
        /\ scanOrder' = IF ValidateSyntax(sql).valid THEN order ELSE scanOrder
        /\ vresult' = Some(ValidateQuery(sql, validation_level, order))
    /\ query' = sql
    /\ UNCHANGED <<validation_level, call>>
    /\ UNCHANGED gvars

NextV == \E sql \in Queries : ValidateQueryCall(sql)

SpecV == Init /\ [][NextV]_vars

\* generate_sql is called: lines 79-133
GenerateSqlCall(mr, ie, vs, oq) ==
    /\ pc = "idle"
    /\ IsNone(vresult)
    /\ IsNone(call)
    /\ max_retries' = mr
    /\ include_explanation' = ie
    /\ validate_syntax' = vs
    /\ optimize_query' = oq
    /\ result' = NewResult
    /\ sql_query' = None
    /\ attempt' = -1
    /\ llmCalls' = 0
    /\ yields' = <<>>
    /\ raised' = FALSE
    /\ steps' = <<>>
    /\ pc' = IF 0 \in RetryRange(mr) THEN "loop" ELSE "post"
    /\ UNCHANGED <<validation_level, scanOrder, query, vresult, call>>

\* one iteration of the retry loop, lines 134-156
Attempt(o) ==
    /\ pc = "loop"
    /\ LET a == attempt + 1
           r0 == [result EXCEPT !.attempts = a + 1]
           more == (a + 1) \in RetryRange(max_retries)
       IN  /\ attempt' = a
           /\ llmCalls' = llmCalls + (IF o.called THEN 1 ELSE 0)
           /\ yields' = Append(yields, o.kind)
           /\ IF o.kind = "raise"
              THEN LET h == OnAttemptException(r0, a, max_retries)
                   IN  /\ result' = h.result
                       /\ sql_query' = sql_query
                       /\ pc' = IF h.returns THEN "returned" ELSE IF more THEN "loop" ELSE "post"
              ELSE /\ result' = r0
                   /\ sql_query' = Some(o.text)
                   /\ pc' = IF Truthy(Some(o.text)) THEN "post" ELSE IF more THEN "loop" ELSE "post"
    /\ UNCHANGED <<validation_level, scanOrder, query, vresult, max_retries,
                   include_explanation, validate_syntax, optimize_query, raised, steps, call>>

\* the rest of generate_sql up to its return, lines 158-232
Finish ==
    /\ pc = "post"
    /\ \E order \in ScanOrders, vb \in ValidatorBehaviours :
        /\ OrderFor(order)
        /\ validate_syntax \/ vb = "returns"
        /\ \E f \in {AfterLoop(result, sql_query, attempt, max_retries, include_explanation,
                              validate_syntax, optimize_query, validation_level, order, vb)} :
            \E h \in {OuterHandler(f.result, f.exc)} :
               /\ result' = h.result
               /\ raised' = h.raised
               /\ llmCalls' = llmCalls + f.llm_calls
               /\ sql_query' = f.sql
               /\ steps' = f.steps
               /\ scanOrder' = IF f.scanned THEN order ELSE scanOrder
    /\ pc' = "returned"
    /\ UNCHANGED <<validation_level, query, vresult, max_retries, include_explanation,
                   validate_syntax, optimize_query, attempt, yields, call>>

\* the raw completions handed to the extractor directly: texts of up to MaxLen
\* words and line breaks
ResponseWords == {"SELECT", "FROM", "T", "SPT_IDENTITY", "\n", "FENCE", "EXPLANATION", ";", "DELETE"}
ResponseScenarios ==
    {<<"WITH", "T", "AS", "(", "SELECT", "1", ")", "\n", "SELECT", "*", "FROM", "T">>,
     <<"WITH", "T", "AS", "(", "SELECT", "1", ")">>,
     <<"HERE", "IS", "THE", "QUERY", "SELECT", "T", "FROM", "SPT_IDENTITY">>}
Responses == TextsUpTo(ResponseWords, MaxLen) \cup ResponseScenarios

\* adapter._extract_sql_from_groq_response(response), one call
ExtractCall(response) ==
    /\ pc = "idle"
    /\ IsNone(vresult)
    /\ IsNone(call)
    /\ call' = Some([op |-> "extract", arg |-> response,
                     ret |-> ExtractSqlFromGroqResponse(SplitLines(response, <<>>))])
    /\ UNCHANGED <<validation_level, scanOrder, query, vresult>>
    /\ UNCHANGED gvars

NextE == IsNone(call) /\ \E response \in Responses : ExtractCall(response)

SpecE == Init /\ [][NextE]_vars

\* the texts handed to the optimizer directly
OptimizerWords == {"SELECT", "FROM", "inner", "INNER", "JOIN", "winner", "T", "EXISTS", "*"}
OptimizerScenarios ==
    {<<"SELECT", "*", "FROM", "T", "WHERE", "EXISTS", "(", "SELECT", "*", "FROM", "t", ")">>,
     <<"SELECT", "*", "FROM", "T", "inner", "JOIN", "winner", "ON", "T", "=", "winner">>,
     <<"SELECT", "*", "FROM", "spt_link", "l", "JOIN", "spt_application", "a",
       "ON", "l.application", "=", "a.id">>}
OptimizerQueries == TextsUpTo(OptimizerWords, MaxLen) \cup OptimizerScenarios

\* optimizer.optimize_query(sql), a first pass
OptimizeQueryCall(sql) ==
    /\ pc = "idle"
    /\ IsNone(vresult)
    /\ IsNone(call)
    /\ call' = Some([op |-> "optimize", pass |-> 1, arg |-> sql, ret |-> OptimizeQuery(sql)])
    /\ UNCHANGED <<validation_level, scanOrder, query, vresult>>
    /\ UNCHANGED gvars

\* optimizer.optimize_query on the optimized_query of the first pass
OptimizeOwnOutput ==
    /\ ~IsNone(call)
    /\ Get(call).op = "optimize"
    /\ Get(call).pass = 1
    /\ call' = Some([op |-> "optimize", pass |-> 2, arg |-> Get(call).ret.optimized_query,
                     ret |-> OptimizeQuery(Get(call).ret.optimized_query)])
    /\ UNCHANGED <<validation_level, scanOrder, query, vresult>>
    /\ UNCHANGED gvars

NextO ==
    \/ \E sql \in OptimizerQueries : OptimizeQueryCall(sql)
    \/ OptimizeOwnOutput

SpecO == Init /\ [][NextO]_vars

\* what search_query_to_definitions can return: one of its two failures, or
\* the definitions of one to MaxLen tables (a dict: no table twice)
TableNames == {"SPT_IDENTITY", "SPT_LINK", "SPT_APPLICATION"}
SearchResults ==
    {[success |-> FALSE, error |-> e, table_definitions |-> <<>>] :
        e \in {"No tables found for query", "No definitions found for tables"}}
    \cup {[success |-> TRUE, error |-> "", table_definitions |-> t] :
            t \in {u \in TextsUpTo(TableNames, MaxLen) :
                        /\ u # <<>>
                        /\ \A i, j \in DOMAIN u : u[i] = u[j] => i = j}}
UserQueries == {<<"SHOW", "ME", "ALL", "ACTIVE", "EMPLOYEES">>, <<"LIST", "ACCOUNTS">>}

\* what training_examples_collection.query(n_results=1) can return
ExampleResults ==
    {None} \cup {Some([entry |-> e, distance |-> d]) : e \in ExampleEntries, d \in Distances}

\* _generate_sql_with_llm builds the prompt of attempt a
BuildPromptCall(search, user_query, found, a) ==
    /\ pc = "idle"
    /\ IsNone(vresult)
    /\ IsNone(call)
    /\ call' = Some([op |-> "prompt",
                     arg |-> [search |-> search, query |-> user_query, found |-> found, attempt |-> a],
                     ret |-> LlmPrompt(search, user_query, found, a)])
    /\ UNCHANGED <<validation_level, scanOrder, query, vresult>>
    /\ UNCHANGED gvars

NextP ==
    IsNone(call) /\
    \E search \in SearchResults, user_query \in UserQueries, found \in ExampleResults,
       a \in RetryRange(MaxRetries) :
        BuildPromptCall(search, user_query, found, a)

SpecP == Init /\ [][NextP]_vars

\* src/app.py: the request handlers, all served by the one SQLGenerator held in
\* the global sql_generator; a handler has no await, so it runs as one step
LevelParameters == ValidationLevel \cup {"paranoid"}

\* POST /validate, lines 326-361
ValidateSqlHandler(level, sql) ==
    /\ pc = "idle"
    /\ IsNone(vresult)
    /\ IF level \notin ValidationLevel
       THEN /\ call' = Some([op |-> "/validate", arg |-> [validation_level |-> level, sql |-> sql],
                             ret |-> [status |-> 400, success |-> FALSE, validation_result |-> None]])
            /\ UNCHANGED <<validation_level, scanOrder>>
       ELSE /\ validation_level' = level
            /\ \E order \in ScanOrders :
                /\ OrderFor(order)
                /\ scanOrder' = IF ValidateSyntax(sql).valid THEN order ELSE scanOrder
                /\ call' = Some([op |-> "/validate", arg |-> [validation_level |-> level, sql |-> sql],
                                 ret |-> [status |-> 200, success |-> TRUE,
                                          validation_result |-> Some(ValidateQuery(sql, level, order))]])
    /\ UNCHANGED <<query, vresult>>
    /\ UNCHANGED gvars

\* POST /query, lines 213-276: the level is stored, then generator.optimizer
\* raises AttributeError, which the handler turns into a failure response
GenerateSqlHandler(level, question) ==
    /\ pc = "idle"
    /\ IsNone(vresult)
    /\ IF level \notin ValidationLevel
       THEN /\ call' = Some([op |-> "/query", arg |-> [validation_level |-> level, question |-> question],
                             ret |-> [status |-> 400, success |-> FALSE,
                                      errors |-> <<>>]])
            /\ UNCHANGED validation_level
       ELSE /\ validation_level' = level
            /\ call' = Some([op |-> "/query", arg |-> [validation_level |-> level, question |-> question],
                             ret |-> [status |-> 200, success |-> FALSE,
                                      errors |-> <<Msg("'SQLGenerator' object has no attribute 'optimizer'", "")>>]])
    /\ UNCHANGED <<scanOrder, query, vresult>>
    /\ UNCHANGED gvars

NextA ==
    \/ \E level \in LevelParameters, sql \in ScenarioQueries : ValidateSqlHandler(level, sql)
    \/ \E level \in LevelParameters, question \in UserQueries : GenerateSqlHandler(level, question)

SpecA == Init /\ [][NextA]_vars

\* _attempt_sql_fix called directly: texts of up to MaxLen words, and every
\* list of distinct messages about semicolons, quotes and parentheses
RepairWords == {"SELECT", "(", ")", "'", ";"}
RepairTexts == TextsUpTo(RepairWords, MaxLen)
RepairMessages ==
    {Msg("Missing semicolon", ""), Msg("Unmatched single quotes", ""),
     Msg("Unmatched parentheses (difference)", "")}
RepairErrors ==
    {e \in UNION {[1..k -> RepairMessages] : k \in 0..Cardinality(RepairMessages)} :
        \A i, j \in DOMAIN e : e[i] = e[j] => i = j}

AttemptSqlFixCall(sql, errors) ==
    /\ pc = "idle"
    /\ IsNone(vresult)
    /\ IsNone(call)
    /\ call' = Some([op |-> "fix", pass |-> 1, arg |-> sql, errors |-> errors,
                     ret |-> AttemptSqlFix(sql, errors)])
    /\ UNCHANGED <<validation_level, scanOrder, query, vresult>>
    /\ UNCHANGED gvars

\* the repaired text is repaired again with the same messages
FixOwnOutput ==
    /\ ~IsNone(call)
    /\ Get(call).op = "fix"
    /\ Get(call).pass = 1
    /\ call' = Some([op |-> "fix", pass |-> 2, arg |-> Get(call).ret, errors |-> Get(call).errors,
                     ret |-> AttemptSqlFix(Get(call).ret, Get(call).errors)])
    /\ UNCHANGED <<validation_level, scanOrder, query, vresult>>
    /\ UNCHANGED gvars

NextR ==
    \/ IsNone(call) /\ \E sql \in RepairTexts, errors \in RepairErrors : AttemptSqlFixCall(sql, errors)
    \/ FixOwnOutput

SpecR == Init /\ [][NextR]_vars

\* step2_tables_to_definitions called with up to MaxLen names, one of them
\* never stored; at most one lookup raises
RequestedNames == TableNames \cup {"SPT_UNKNOWN"}

Step2Call(table_names, store, raising) ==
    /\ pc = "idle"
    /\ IsNone(vresult)
    /\ IsNone(call)
    /\ call' = Some([op |-> "step2", arg |-> table_names, store |-> store, raising |-> raising,
                     ret |-> Step2TablesToDefinitions(table_names, store, raising, <<>>)])
    /\ UNCHANGED <<validation_level, scanOrder, query, vresult>>
    /\ UNCHANGED gvars

NextD ==
    IsNone(call) /\
    \E table_names \in TextsUpTo(RequestedNames, MaxLen), store \in SUBSET TableNames,
       raising \in {{}} \cup {{n} : n \in RequestedNames} :
        Step2Call(table_names, store, raising)

SpecD == Init /\ [][NextD]_vars

NextG ==
    \/ \E mr \in 0..MaxRetries, ie, vs, oq \in BOOLEAN : GenerateSqlCall(mr, ie, vs, oq)
    \/ \E o \in AttemptOutcomes : Attempt(o)
    \/ Finish

SpecG == Init /\ [][NextG]_vars

Next == NextV \/ NextG \/ NextE \/ NextO \/ NextP \/ NextA \/ NextR \/ NextD

Spec == Init /\ [][Next]_vars

-----------------------------------------------------------------------------
(* Properties of generate_sql (SpecG) *)

\* C1: during a generate_sql call the adapter is called at most max_retries
\* times, explanation step included, and the reported attempts count never
\* exceeds max_retries.
RetryBound ==
    /\ llmCalls <= max_retries
    /\ result.attempts <= max_retries

\* C1 is exercised: a call that asked for an explanation used its whole budget
\* of adapter calls and returned a success.
RetryBoundWitness ==
    /\ pc = "returned"
    /\ include_explanation
    /\ result.success
    /\ max_retries >= 2
    /\ llmCalls = max_retries
    /\ result.attempts = max_retries

\* C4: a call all of whose attempts yielded an empty text or the extractor's
\* sentinel returns success = false with a non-empty errors list.
EmptyOrSentinelFails ==
    (/\ pc = "returned"
     /\ yields # <<>>
     /\ \A i \in DOMAIN yields : yields[i] \in {"empty", "sentinel"})
    => (~result.success /\ result.errors # <<>>)

\* C5: generate_sql never raises, and when the completion service failed the
\* call (its last request timed out or ended in an error) the returned result
\* records a failure in errors or in warnings.
FailureRecorded ==
    /\ ~raised
    /\ (/\ pc = "returned"
        /\ yields # <<>>
        /\ Last(yields) \in {"raise", "timeout", "error"})
       => (result.errors # <<>> \/ result.warnings # <<>>)

\* C6: the retry loop is left only after an attempt whose extraction is
\* neither empty nor the sentinel, or when no attempt remains; no attempt
\* follows an accepted extraction.
LoopStopsOnSqlOnly ==
    /\ \A i \in 1..(Len(yields) - 1) : yields[i] \in {"raise", "empty", "sentinel"}
    /\ (/\ pc \in {"post", "returned"}
        /\ yields # <<>>
        /\ Last(yields) \in {"empty", "sentinel"})
       => Len(yields) = max_retries

\* C7: a timed-out completion call is a failed attempt: the loop goes on while
\* attempts remain, and what the timed-out call produced is never the SQL of
\* the returned result.
TimeoutIsFailedAttempt ==
    /\ (/\ pc \in {"post", "returned"}
        /\ yields # <<>>
        /\ Last(yields) = "timeout")
       => Len(yields) = max_retries
    /\ (/\ pc = "returned"
        /\ \E i \in DOMAIN yields : yields[i] = "timeout")
       => result.sql_query # TimeoutSelect

InvalidVerdictNotFatal ==
    [][(/\ pc = "post"
        /\ pc' = "returned"
        /\ ~IsNone(result'.validation_result)
        /\ ~Get(result'.validation_result).valid)
       => /\ result'.success
          /\ ~raised'
          /\ ~IsNone(sql_query')
          /\ result'.sql_query = Get(sql_query')
          /\ llmCalls' = llmCalls]_vars

\* C18 is exercised: a call returned whose candidate was repaired, judged
\* again and still found invalid.
InvalidVerdictWitness ==
    /\ pc = "returned"
    /\ ~IsNone(result.validation_result)
    /\ ~Get(result.validation_result).valid
    /\ Len(steps) = 3
    /\ result.success

\* C19: when the candidate's only defect is k >= 1 missing closing
\* parentheses and attempts remain, the repair appends exactly k ")" and the
\* validator finds the repaired text valid.
MissingParenRepaired ==
    (/\ pc = "returned"
     /\ Len(steps) >= 2
     /\ steps[1][1] = "validate"
     /\ steps[2][1] = "repair"
     /\ Len(ValidateSyntax(steps[1][2]).errors) = 1
     /\ ValidateSyntax(steps[1][2]).errors[1][1] = "Unmatched parentheses (difference)"
     /\ Count(steps[1][2], "(") > Count(steps[1][2], ")"))
    => /\ Len(steps) = 3
       /\ steps[3] = Msg("validate", steps[1][2]
                                      \o Repeat(")", Count(steps[1][2], "(") - Count(steps[1][2], ")")))
       /\ result.sql_query = steps[3][2]
       /\ ~IsNone(result.validation_result)
       /\ Get(result.validation_result).valid

\* C20: when the validator reports unmatched single quotes on a candidate and
\* attempts remain, the repair pass yields a text on which the validator's
\* quote check passes, backslash-escaped quotes included.
UnmatchedQuoteRepaired ==
    (/\ pc = "returned"
     /\ Len(steps) >= 2
     /\ steps[1][1] = "validate"
     /\ steps[2][1] = "repair"
     /\ \E i \in DOMAIN ValidateSyntax(steps[1][2]).errors :
            ValidateSyntax(steps[1][2]).errors[i][1] = "Unmatched single quotes")
    => (Count(result.sql_query, "'") - Count(result.sql_query, "\\'")) % 2 = 0

\* C29: at every return of generate_sql, success holds exactly when the
\* errors list is empty, and a successful result has a non-empty sql_query.
SuccessIffNoErrors ==
    pc = "returned"
    => /\ result.success <=> result.errors = <<>>
       /\ result.success => result.sql_query # <<>>

\* C29 is exercised: a call returned with success after an attempt that
\* raised.
SuccessIffNoErrorsWitness ==
    /\ pc = "returned"
    /\ result.success
    /\ Len(yields) >= 2
    /\ yields[1] = "raise"

\* C30: when an explanation is asked for and producing it fails, the step
\* that returns appends the warning "Could not generate explanation", leaves
\* explanation empty, and returns the success, sql_query, validation_result
\* and errors of the same call without include_explanation.
ExplanationFailureFrame ==
    [][(/\ pc = "post"
        /\ pc' = "returned"
        /\ include_explanation
        /\ result'.success)
       => \E order \in ScanOrders :
            /\ scanOrder' = <<>> \/ scanOrder' = order
            /\ \E base \in {AfterLoop(result, sql_query, attempt, max_retries, FALSE, validate_syntax,
                                       optimize_query, validation_level, order, "returns").result} :
                 /\ result'.explanation = <<>>
                 /\ result'.warnings = Append(base.warnings, Msg("Could not generate explanation", ""))
                 /\ result'.success = base.success
                 /\ result'.sql_query = base.sql_query
                 /\ result'.validation_result = base.validation_result
                 /\ result'.errors = base.errors]_vars

\* C30 is exercised: a call that asked for an explanation returned with
\* success, the warning and no explanation.
ExplanationFailureWitness ==
    /\ pc = "returned"
    /\ include_explanation
    /\ result.success
    /\ result.explanation = <<>>
    /\ result.warnings # <<>>
    /\ Last(result.warnings)[1] = "Could not generate explanation"

\* C14: a generate_sql call that obtained a candidate and was asked to
\* optimize attaches, as optimization_result, what the optimizer returns for
\* the final candidate.
OptimizerRunOnCandidate ==
    (pc = "returned" /\ result.success /\ optimize_query)
    => \E o \in {OptimizeQuery(result.sql_query)} :
          result.optimization_result =
              Some([optimized_query |-> o.optimized_query,
                    optimizations_applied |-> o.optimizations_applied,
                    warnings |-> o.warnings])

-----------------------------------------------------------------------------
(* Properties of validate_query (SpecV) *)

\* C2: a text that does not begin with SELECT or WITH is never valid, at any
\* validation level.
NonSelectNeverValid ==
    (/\ ~IsNone(vresult)
     /\ (query = <<>> \/ Head(query) \notin {"SELECT", "WITH"}))
    => ~Get(vresult).valid

\* C17: when the syntax pass fails, validate_query returns valid=false with
\* exactly the syntax errors, no security issue, warning or suggestion, the
\* risk level low and the input unchanged as sanitized_query.
SyntaxFailureIsTerminal ==
    (~IsNone(vresult) /\ ~ValidateSyntax(query).valid)
    => /\ ~Get(vresult).valid
       /\ Get(vresult).errors = ValidateSyntax(query).errors
       /\ Get(vresult).security_issues = <<>>
       /\ Get(vresult).warnings = <<>>
       /\ Get(vresult).suggestions = <<>>
       /\ Get(vresult).risk_level = "low"
       /\ Get(vresult).sanitized_query = query

\* C17 is exercised: a query with an unmatched quote that names DROP, which
\* the security pass would report, was validated.
SyntaxFailureWitness ==
    /\ ~IsNone(vresult)
    /\ Len(Get(vresult).errors) = 1
    /\ Get(vresult).errors[1][1] = "Unmatched single quotes"
    /\ Contains(query, "DROP")

\* C2 is exercised: a DELETE that passes the syntax pass was judged at the
\* basic level, where a high risk alone does not make a query invalid.
NonSelectWitness ==
    /\ ~IsNone(vresult)
    /\ validation_level = BASIC
    /\ query # <<>>
    /\ Head(query) = "DELETE"
    /\ ValidateSyntax(query).valid
    /\ Get(vresult).risk_level = "high"
    /\ ~Get(vresult).valid

\* C3: a query with a deny-listed keyword outside quoted literals is never
\* reported with risk_level low, whether or not it passes the syntax pass.
DenyListedNeverLow ==
    (/\ ~IsNone(vresult)
     /\ \E i \in DOMAIN query :
            /\ ~InLiteral(query, i)
            /\ query[i] \in DANGEROUS_KEYWORDS)
    => Get(vresult).risk_level # "low"

\* C8: a statement that passes the syntax pass, begins with SELECT or WITH and
\* has no security hit is valid with risk_level low.
PlainSelectValid ==
    (/\ ~IsNone(vresult)
     /\ ValidateSyntax(query).valid
     /\ Head(query) \in {"SELECT", "WITH"}
     /\ Get(vresult).security_issues = <<>>
     /\ Get(vresult).risk_level = "low")
    => Get(vresult).valid

\* C9: valid is the conjunction of the syntax verdict, the statement-type
\* verdict (the first keyword is SELECT or WITH) and (risk_level is not high
\* or the level is not strict).
VerdictFormula ==
    ~IsNone(vresult)
    => (Get(vresult).valid <=>
            /\ ValidateSyntax(query).valid
            /\ query # <<>> /\ Head(query) \in ALLOWED_STATEMENTS
            /\ (Get(vresult).risk_level # "high" \/ validation_level # STRICT))

\* C10: once a hit of the high class occurs (DROP, DELETE, TRUNCATE or ALTER
\* keyword, DELETE without WHERE) the reported risk_level is high, whatever
\* other hits occur and in whatever order the deny-list is scanned.
RiskIsMaxSeverity ==
    (/\ ~IsNone(vresult)
     /\ ValidateSyntax(query).valid
     /\ \E keyword \in {"DROP", "DELETE", "TRUNCATE", "ALTER"} : Contains(query, keyword))
    => Get(vresult).risk_level = "high"

-----------------------------------------------------------------------------
(* Properties of the extractor (SpecE) *)

\* C11: for every raw completion the extractor returns the fixed sentinel or a
\* text that starts with SELECT, is at least 15 characters long and ends with
\* a semicolon.
ExtractorSafety ==
    (~IsNone(call) /\ Get(call).op = "extract")
    => \/ Get(call).ret = InvalidSqlSentinel
       \/ /\ Get(call).ret # <<>>
          /\ Head(Get(call).ret) = "SELECT"
          /\ TextLen(Get(call).ret) >= 15
          /\ Last(Get(call).ret) = ";"

\* C11 is exercised: a completion that does not start with SELECT and spans
\* two lines was extracted to a text other than the sentinel.
ExtractorSafetyWitness ==
    /\ ~IsNone(call)
    /\ Get(call).op = "extract"
    /\ Get(call).arg # <<>>
    /\ Head(Get(call).arg) # "SELECT"
    /\ Contains(Get(call).arg, "\n")
    /\ Get(call).ret # InvalidSqlSentinel

-----------------------------------------------------------------------------
(* Properties of the optimizer (SpecO) *)

\* C22: for a query with SELECT * outside EXISTS, the result of optimize_query
\* carries the SELECT * advisory, and the SELECT * rule is not recorded as an
\* applied rewrite.
SelectStarAdvisoryReported ==
    (/\ ~IsNone(call)
     /\ Get(call).op = "optimize"
     /\ Get(call).pass = 1
     /\ \E i \in 1..(Len(Get(call).arg) - 1) :
           /\ Upper(Get(call).arg[i]) = "SELECT"
           /\ Get(call).arg[i + 1] = "*"
           /\ ~(i > 2 /\ ExistsStarAt(Get(call).arg, i - 2)))
    => /\ \E j \in DOMAIN Get(call).ret.performance_improvements :
             Get(call).ret.performance_improvements[j]
                 = "Consider specifying column names instead of SELECT * for better performance"
       /\ \A j \in DOMAIN Get(call).ret.optimizations_applied :
             Get(call).ret.optimizations_applied[j] # "SELECT * analysis"

\* C23: for a completion whose first non-empty line starts with WITH, the
\* extractor returns the statement that begins at that line: not the
\* sentinel, and with WITH, not a prepended keyword, as its first word.
CteExtractedAsIs ==
    (/\ ~IsNone(call)
     /\ Get(call).op = "extract"
     /\ \E lines \in {SplitLines(Get(call).arg, <<>>)} :
          \E k \in DOMAIN lines :
             /\ StripFences(lines[k]) # <<>>
             /\ Head(StripFences(lines[k])) = "WITH"
             /\ \A j \in 1..(k - 1) : StripFences(lines[j]) = <<>>)
    => /\ Get(call).ret # InvalidSqlSentinel
       /\ Head(Get(call).ret) = "WITH"
       /\ Last(Get(call).ret) = ";"

\* C24: the text the extractor returns holds no line that matches the
\* explanatory-phrase set, the line at which capture begins included.
NoExplanatoryLineReturned ==
    (~IsNone(call) /\ Get(call).op = "extract")
    => ~HasExplanatoryPhrase(Get(call).ret)

-----------------------------------------------------------------------------
(* Properties of the prompt (SpecP) *)

\* C25: when the search finds no table, or no definition, the prompt handed
\* to the completion service still holds the base instructions and the
\* literal user query.
PromptBuiltWithoutTables ==
    (~IsNone(call) /\ Get(call).op = "prompt" /\ ~Get(call).arg.search.success)
    => /\ \E i \in DOMAIN Get(call).ret :
             Get(call).ret[i][1] = "You are a MySQL expert, you need to write query for me in mysql."
       /\ \E i \in DOMAIN Get(call).ret :
             /\ Get(call).ret[i][1] = "User Request:"
             /\ Get(call).ret[i][2] = Get(call).arg.query

\* C26: the worked example in the prompt is the entry the example search
\* matched: its question, SQL and explanation are those of that entry.
ExampleIsMatchedEntry ==
    (/\ ~IsNone(call)
     /\ Get(call).op = "prompt"
     /\ Get(call).arg.search.success
     /\ ~IsNone(Get(call).arg.found))
    => \E i \in DOMAIN Get(call).ret :
          /\ Get(call).ret[i][1] = "## RELEVANT TRAINING EXAMPLE:"
          /\ Get(call).ret[i][2].natural_language = Get(Get(call).arg.found).entry.natural_language
          /\ Get(call).ret[i][2].sql_query = Get(Get(call).arg.found).entry.sql_query
          /\ Get(call).ret[i][2].explanation = Get(Get(call).arg.found).entry.explanation

\* C28: every similarity score the retriever computes lies in [0, 1] (0 to 10
\* tenths).
SimilarityInUnitInterval ==
    (~IsNone(call) /\ Get(call).op = "prompt")
    => \A i \in DOMAIN Get(call).ret :
          Get(call).ret[i][1] = "## RELEVANT TRAINING EXAMPLE:"
          => (0 <= Get(call).ret[i][2].similarity /\ Get(call).ret[i][2].similarity <= 10)

\* C27: the definition lookup returns one entry for each requested name that
\* has a stored definition and whose lookup does not raise, with that
\* definition, and no other entry.
DefinitionsExactlyForStored ==
    (~IsNone(call) /\ Get(call).op = "step2")
    => \E c \in {Get(call)} :
         /\ {c.ret[i][1] : i \in DOMAIN c.ret}
               = {c.arg[i] : i \in DOMAIN c.arg} \cap (c.store \ c.raising)
         /\ \A i, j \in DOMAIN c.ret : c.ret[i][1] = c.ret[j][1] => i = j
         /\ \A i \in DOMAIN c.ret : c.ret[i][2] = DefinitionOf(c.ret[i][1])

\* C27 is exercised: of three requested names one had no definition, the
\* lookup of one raised, and the third was found.
DefinitionsWitness ==
    /\ ~IsNone(call)
    /\ Get(call).op = "step2"
    /\ Len(Get(call).arg) = 3
    /\ \E i \in 1..3 : Get(call).arg[i] \notin Get(call).store
    /\ \E i \in 1..3 : Get(call).arg[i] \in Get(call).store \cap Get(call).raising
    /\ Len(Get(call).ret) = 1

\* C15: the prompt handed to the completion service has the sections in the
\* fixed order primer, one DDL block per retrieved table, worked example,
\* output constraints, user query; the user query is the last section, only a
\* retry hint may follow it.
PromptSectionOrder ==
    (~IsNone(call) /\ Get(call).op = "prompt" /\ Get(call).arg.search.success)
    => \E p \in {Get(call).ret}, n \in {Len(Get(call).arg.search.table_definitions)} :
        \E uq \in DOMAIN p :
          /\ p[uq][1] = "User Request:"
          /\ p[uq][2] = Get(call).arg.query
          /\ p[1][1] = "You are a MySQL expert, you need to write query for me in mysql."
          /\ \A i \in 1..n : /\ p[1 + i][1] = "CREATE TABLE"
                               /\ p[1 + i][2] = Get(call).arg.search.table_definitions[i]
          /\ \A i \in (n + 2)..(uq - 1) :
                /\ p[i][1] \in {"## RELEVANT TRAINING EXAMPLE:", "Key points to remember:",
                                "Based on these table definitions and training examples, generate the appropriate SQL query for the user's request.",
                                "Generate ONLY the SQL query (no explanations or additional text):"}
                /\ p[i][1] = "## RELEVANT TRAINING EXAMPLE:" => i = n + 2
          /\ \A i \in (uq + 1)..Len(p) : p[i][1] = "RETRY ATTEMPT"

-----------------------------------------------------------------------------
(* Properties of the request handlers (SpecA) *)

\* C16: handling a request never writes state held by the shared generator:
\* no step of a handler changes the validation level of the shared validator.
SharedLevelNeverWritten == [][validation_level' = validation_level]_vars

-----------------------------------------------------------------------------
(* Properties of the repair function (SpecR) *)

\* C21: the repair is idempotent: repairing a repaired text again with the
\* same messages returns it unchanged.
RepairIdempotent ==
    (~IsNone(call) /\ Get(call).op = "fix" /\ Get(call).pass = 2)
    => Get(call).ret = Get(call).arg

====
